---- MODULE Spec2Model ----
(***************************************************************************)
(* A model of render_issues.py: the repository-identifier parser           *)
(* (parse_repo_url), the paginated fetch (fetch_issues over               *)
(* make_github_request), the driver (main) and the structure of the        *)
(* document produced by build_html / build_sidebar_navigation /            *)
(* generate_cxml_text.                                                     *)
(*                                                                         *)
(* Three specifications share the variables:                               *)
(*   Spec        one run of main against a listing that does not change    *)
(*   SpecParse   parse_repo_url applied to a family of identifiers         *)
(*   SpecRender  build_html applied to a family of issue lists             *)
(***************************************************************************)
EXTENDS Integers, Sequences, FiniteSets, TLC

VARIABLES
    repo_url,          \* args.repo_url: a sequence of one-character strings
    parsed,            \* result of parse_repo_url, or NotYet
    pc,                \* position of main / fetch_issues
    include_comments,  \* args.comments
    n_raw,             \* number of raw records the listing holds
    pattern,           \* the listing's records: record i is pattern[((i-1) % Len) + 1]
    page,              \* fetch_issues: page
    idx,               \* fetch_issues: position of `item` in `data` (1-based), 0 outside the loop
    page_issues,       \* fetch_issues: page_issues
    issues,            \* fetch_issues: issues
    requests,          \* every request issued so far, with the status it was answered with
    messages,          \* what was printed to stderr (kinds of message, in order)
    exit_code,         \* the process exit code, NoExit while running
    failure,           \* what ended the run abnormally, "none" otherwise
    fetch_returned,    \* fetch_issues has returned its list to main
    html_built,        \* html_content holds the complete document
    writes,            \* number of times output_path.write_text was entered
    out_file,          \* the output path: "absent", "partial" or "complete"
    raw_item,          \* one record of a page, as the API sent it
    norm,              \* "pending", "ok" or the exception its normalization raised
    issue_list,        \* SpecRender: the argument `issues` of build_html
    document,          \* SpecRender: the structure of the rendered document, or NotYet
    dom                \* the document as a browser shows it: styles, classes, the search box

parseVars  == <<repo_url, parsed>>
fetchVars  == <<pc, include_comments, n_raw, pattern, page, idx, page_issues, issues,
                requests, messages, exit_code, failure, fetch_returned, html_built,
                writes, out_file>>
renderVars == <<raw_item, norm, issue_list, document, dom>>
vars       == <<parseVars, fetchVars, renderVars>>

NotYet == [ok |-> FALSE, pending |-> TRUE]

\* no browser has opened the document
Unloaded == [loaded |-> FALSE]
NoExit == -1

(***************************************************************************)
(* Strings are sequences of one-character strings.                         *)
(***************************************************************************)
Slash      == "/"
DotGit     == <<".", "g", "i", "t">>
HostMarker == <<"g", "i", "t", "h", "u", "b", ".", "c", "o", "m", "/">>
Http       == <<"h", "t", "t", "p">>

\* s.startswith(p)
StartsWith(s, p) ==
    /\ Len(p) <= Len(s)
    /\ SubSeq(s, 1, Len(p)) = p

\* s.endswith(p)
EndsWith(s, p) ==
    /\ Len(p) <= Len(s)
    /\ SubSeq(s, Len(s) - Len(p) + 1, Len(s)) = p

\* p occurs in s at position i
OccursAt(s, p, i) ==
    /\ i >= 1
    /\ i + Len(p) - 1 <= Len(s)
    /\ SubSeq(s, i, i + Len(p) - 1) = p

\* p in s
Contains(s, p) == \E i \in 1..Len(s) : OccursAt(s, p, i)

\* s.rstrip('/')
RECURSIVE RStripSlash(_)
RStripSlash(s) ==
    IF s # <<>> /\ s[Len(s)] = Slash
    THEN RStripSlash(SubSeq(s, 1, Len(s) - 1))
    ELSE s

\* s.split(p): scans left to right, cutting at each non-overlapping occurrence of p
RECURSIVE SplitFrom(_, _, _, _)
SplitFrom(s, p, start, i) ==
    IF i + Len(p) - 1 > Len(s)
    THEN <<SubSeq(s, start, Len(s))>>
    ELSE IF OccursAt(s, p, i)
         THEN <<SubSeq(s, start, i - 1)>> \o SplitFrom(s, p, i + Len(p), i + Len(p))
         ELSE SplitFrom(s, p, start, i + 1)

Split(s, p) == SplitFrom(s, p, 1, 1)

Last(seq) == seq[Len(seq)]

ValueError == [ok |-> FALSE, pending |-> FALSE]
Pair(o, r) == [ok |-> TRUE, pending |-> FALSE, owner |-> o, repo |-> r]

\* the guard of the bare owner/repo branch
BareGuard(url) == Contains(url, <<Slash>>) /\ ~StartsWith(url, Http)

\* parse_repo_url after the suffixes are stripped
ParseStripped(url) ==
    LET hostParts == Split(Last(Split(url, HostMarker)), <<Slash>>)
        bareParts == Split(url, <<Slash>>)
    IN  IF Contains(url, HostMarker) /\ Len(hostParts) >= 2
        THEN Pair(hostParts[1], hostParts[2])
        ELSE IF BareGuard(url) /\ Len(bareParts) = 2
             THEN Pair(bareParts[1], bareParts[2])
             ELSE ValueError

\* url = url.rstrip('/'); if url.endswith('.git'): url = url[:-4]
StripSuffixes(url) ==
    LET u == RStripSlash(url)
    IN  IF EndsWith(u, DotGit) THEN SubSeq(u, 1, Len(u) - 4) ELSE u

parse_repo_url(url) == ParseStripped(StripSuffixes(url))

(***************************************************************************)
(* Text: code points, comparison, case mapping and html.escape.            *)
(***************************************************************************)
\* the characters the model uses, in code-point order
CodePoints ==
    <<" ", "\"", "#", "&", "'", "(", ")", "-", ".", "/",
      "0", "1", "2", "3", "4", "5", "6", "7", "8", "9", ":", ";", "<", ">",
      "A", "B", "C", "D", "E", "F", "G", "H", "I", "J", "K", "L", "M",
      "N", "O", "P", "Q", "R", "S", "T", "U", "V", "W", "X", "Y", "Z", "_",
      "a", "b", "c", "d", "e", "f", "g", "h", "i", "j", "k", "l", "m",
      "n", "o", "p", "q", "r", "s", "t", "u", "v", "w", "x", "y", "z">>

\* ord(c), up to an order-preserving renumbering
Ord(c) == CHOOSE i \in DOMAIN CodePoints : CodePoints[i] = c

UpperCaseLetters == SubSeq(CodePoints, Ord("A"), Ord("Z"))
LowerCaseLetters == SubSeq(CodePoints, Ord("a"), Ord("z"))

\* a < b for str: the first differing code point decides, a proper prefix is smaller
RECURSIVE StrLess(_, _)
StrLess(a, b) ==
    IF b = <<>> THEN FALSE
    ELSE IF a = <<>> THEN TRUE
    ELSE IF Head(a) # Head(b) THEN Ord(Head(a)) < Ord(Head(b))
    ELSE StrLess(Tail(a), Tail(b))

\* c.upper() and c.lower() of one character
UpperChar(c) ==
    IF \E i \in DOMAIN LowerCaseLetters : LowerCaseLetters[i] = c
    THEN UpperCaseLetters[CHOOSE i \in DOMAIN LowerCaseLetters : LowerCaseLetters[i] = c]
    ELSE c
LowerChar(c) ==
    IF \E i \in DOMAIN UpperCaseLetters : UpperCaseLetters[i] = c
    THEN LowerCaseLetters[CHOOSE i \in DOMAIN UpperCaseLetters : UpperCaseLetters[i] = c]
    ELSE c

\* s.upper(), s.lower()
Upper(s) == [i \in DOMAIN s |-> UpperChar(s[i])]
Lower(s) == [i \in DOMAIN s |-> LowerChar(s[i])]

\* what html.escape (quote=True) writes for one character
EscapeChar(c) ==
    CASE c = "&"  -> <<"&", "a", "m", "p", ";">>
      [] c = "<"  -> <<"&", "l", "t", ";">>
      [] c = ">"  -> <<"&", "g", "t", ";">>
      [] c = "\"" -> <<"&", "q", "u", "o", "t", ";">>
      [] c = "'"  -> <<"&", "#", "x", "2", "7", ";">>
      [] OTHER    -> <<c>>

\* html.escape(s)
RECURSIVE Escape(_)
Escape(s) == IF s = <<>> THEN <<>> ELSE EscapeChar(Head(s)) \o Escape(Tail(s))

\* Optional[str]: None, or one string
None    == <<>>
Some(s) == <<s>>

\* the truth value Python gives an Optional[str]: None and '' are false
Truthy(opt) == opt # None /\ opt[1] # <<>>


(***************************************************************************)
(* Identifiers given on the command line.                                  *)
(***************************************************************************)
Owners == { <<"o">>, <<"a", "b">>, <<"h", "t", "t", "p", "i", "e">> }
Repos  == { <<"r">>, <<"c", "l", "i">>, <<"x", ".", "y">> }
Forms  == { <<>>,
            <<"h", "t", "t", "p", ":", "/", "/">> \o HostMarker,
            <<"h", "t", "t", "p", "s", ":", "/", "/">> \o HostMarker }
Suffixes == { <<>>, DotGit, <<Slash>>, DotGit \o <<Slash>> }

Identifier(form, o, r, suffix) == form \o o \o <<Slash>> \o r \o suffix

NotAValidPath ==
    <<"n", "o", "t", "-", "a", "-", "v", "a", "l", "i", "d", "-", "p", "a", "t", "h">>

\* identifiers that name no owner/repository pair
OtherIdentifiers ==
    { NotAValidPath,
      <<>>,
      <<Slash, "r">>,
      <<"o", Slash, Slash>>,
      <<"o", Slash, "r", Slash, "x">>,
      <<"h", "t", "t", "p", "s", ":", "/", "/">> \o HostMarker,
      <<"h", "t", "t", "p", "s", ":", "/", "/">> \o HostMarker \o <<Slash, "r">>,
      <<"h", "t", "t", "p", "s", ":", "/", "/">> \o HostMarker \o <<"o">> }

Identifiers ==
    { Identifier(f, o, r, s) : f \in Forms, o \in Owners, r \in Repos, s \in Suffixes }
        \cup OtherIdentifiers

\* the identifiers a modelled run of main is started with
RunIdentifiers == { Identifier(<<>>, <<"o">>, <<"r">>, <<>>), NotAValidPath }

(***************************************************************************)
(* The listing endpoint.  The repository holds n_raw raw records, numbered *)
(* 1..n_raw in listing order; two record shapes alternate along it.       *)
(***************************************************************************)
PerPage   == 100
StatusOK  == 200
Forbidden == 403

MaxFullPages == 2      \* the listing holds at most MaxFullPages full pages and a partial one

Min(a, b) == IF a <= b THEN a ELSE b
Max(a, b) == IF a >= b THEN a ELSE b

\* shapes of a raw record: the fields fetch_issues reads
IssuePlain     == [pull_request |-> FALSE, comments |-> 0, wellformed |-> TRUE]
IssueCommented == [pull_request |-> FALSE, comments |-> 2, wellformed |-> TRUE]
PullRequest    == [pull_request |-> TRUE,  comments |-> 1, wellformed |-> TRUE]
Malformed      == [pull_request |-> FALSE, comments |-> 0, wellformed |-> FALSE]
RawKinds       == {IssuePlain, IssueCommented, PullRequest, Malformed}

\* the listings: pattern[1], pattern[2], pattern[1], ...
Patterns == { <<a, b>> : a \in RawKinds, b \in RawKinds }

Sizes ==
    { p * PerPage + d : p \in 0..MaxFullPages, d \in {0, 1, PerPage \div 2, PerPage - 1} }

\* raw record number g of the listing
RawAt(g) == pattern[((g - 1) % Len(pattern)) + 1]

\* len(data) for the response to ?page=p&per_page=pp
PageLen(p, pp) == Max(0, Min(pp, n_raw - (p - 1) * pp))

\* the listing position of data[i] on page p
Global(p, i) == (p - 1) * PerPage + i

\* the pull-request test left out
HasPullRequest_Never(item) == FALSE

\* 'pull_request' in item
HasPullRequest(item) == item.pull_request

\* the flag left out
WantsComments_Any(item) == item.comments > 0

\* include_comments and item['comments'] > 0
WantsComments(item) == include_comments /\ item.comments > 0

\* the comparison off by one
ShortPage_OffByOne(n) == n <= PerPage

\* len(data) < per_page
ShortPage(n) == n < PerPage

Pending == 0
PageRequest(p)     == [kind |-> "page", arg |-> p, per_page |-> PerPage, status |-> Pending]
CommentsRequest(g) == [kind |-> "comments", arg |-> g, per_page |-> 0, status |-> Pending]

\* the last request of the log answered with status s
Answered(log, s) == [log EXCEPT ![Len(log)].status = s]

\* the rate-limit case left out
ErrorMessage_Generic(status) == [kind |-> "http_error", status |-> status]

\* what make_github_request prints for a response with a status other than 200
ErrorMessage(status) ==
    IF status >= 400
    THEN IF status = Forbidden
         THEN [kind |-> "rate_limit", status |-> status]
         ELSE [kind |-> "http_error", status |-> status]
    ELSE [kind |-> "http_status", status |-> status]

FailStatuses == {202, 403, 500}

Msg(k) == [kind |-> k, status |-> 0]

(***************************************************************************)
(* main and fetch_issues.                                                  *)
(***************************************************************************)
Item == RawAt(Global(page, idx))

\* the Issue built from data[idx]; comments are attached once fetched
NewIssue(fetched) == [number |-> Global(page, idx), comments |-> fetched]

\* the process ends: a message on stderr and the exit code
Exit(msg, code, cause) ==
    /\ messages' = Append(messages, msg)
    /\ exit_code' = code
    /\ failure' = cause
    /\ pc' = "exit"

\* try: owner, repo = parse_repo_url(args.repo_url)
ParseOk ==
    /\ pc = "parse"
    /\ parse_repo_url(repo_url).ok
    /\ parsed' = parse_repo_url(repo_url)
    /\ pc' = "page_request"
    /\ page' = 1
    /\ UNCHANGED <<repo_url, include_comments, n_raw, pattern, idx, page_issues, issues,
                   requests, messages, exit_code, failure, fetch_returned, html_built,
                   writes, out_file, renderVars>>

\* the parse error reported, and the run carried on
ParseFails_Continue ==
    /\ pc = "parse"
    /\ ~parse_repo_url(repo_url).ok
    /\ parsed' = parse_repo_url(repo_url)
    /\ messages' = Append(messages, Msg("input_error"))
    /\ pc' = "page_request"
    /\ page' = 1
    /\ UNCHANGED <<repo_url, include_comments, n_raw, pattern, idx, page_issues, issues,
                   requests, exit_code, failure, fetch_returned, html_built, writes,
                   out_file, renderVars>>

\* except ValueError: print, return 1
ParseFails ==
    /\ pc = "parse"
    /\ ~parse_repo_url(repo_url).ok
    /\ parsed' = parse_repo_url(repo_url)
    /\ Exit(Msg("input_error"), 1, "parse")
    /\ UNCHANGED <<repo_url, include_comments, n_raw, pattern, page, idx, page_issues,
                   issues, requests, fetch_returned, html_built, writes, out_file,
                   renderVars>>

\* while True: data = make_github_request(url, token) -- the request goes out
SendPageRequest ==
    /\ pc = "page_request"
    /\ requests' = Append(requests, PageRequest(page))
    /\ pc' = "page_wait"
    /\ UNCHANGED <<parseVars, include_comments, n_raw, pattern, page, idx, page_issues,
                   issues, messages, exit_code, failure, fetch_returned, html_built,
                   writes, out_file, renderVars>>

\* the listing page is answered with 200 and holds records: the for loop starts
PageArrives ==
    /\ pc = "page_wait"
    /\ PageLen(page, Last(requests).per_page) > 0
    /\ requests' = Answered(requests, StatusOK)
    /\ page_issues' = <<>>
    /\ idx' = 1
    /\ pc' = "items"
    /\ UNCHANGED <<parseVars, include_comments, n_raw, pattern, page, issues, messages,
                   exit_code, failure, fetch_returned, html_built, writes, out_file,
                   renderVars>>

\* the listing page is answered with 200 and is empty: if not data: break; return issues
EmptyPageArrives ==
    /\ pc = "page_wait"
    /\ PageLen(page, Last(requests).per_page) = 0
    /\ requests' = Answered(requests, StatusOK)
    /\ fetch_returned' = TRUE
    /\ pc' = "fetched"
    /\ UNCHANGED <<parseVars, include_comments, n_raw, pattern, page, idx, page_issues,
                   issues, messages, exit_code, failure, html_built, writes, out_file,
                   renderVars>>

\* make_github_request: a status other than 200: print, sys.exit(1)
RequestFails ==
    /\ pc \in {"page_wait", "comments_wait"}
    /\ \E status \in FailStatuses :
          /\ requests' = Answered(requests, status)
          /\ Exit(ErrorMessage(status), 1, "request")
    /\ UNCHANGED <<parseVars, include_comments, n_raw, pattern, page, idx, page_issues,
                   issues, fetch_returned, html_built, writes, out_file, renderVars>>

\* make_github_request: except Exception (no response, or a body that is not JSON)
RequestRaises ==
    /\ pc \in {"page_wait", "comments_wait"}
    /\ Exit(Msg("request_error"), 1, "request")
    /\ UNCHANGED <<parseVars, include_comments, n_raw, pattern, page, idx, page_issues,
                   issues, requests, fetch_returned, html_built, writes, out_file,
                   renderVars>>

\* for item in data: if 'pull_request' in item: continue
SkipPullRequest ==
    /\ pc = "items"
    /\ idx <= PageLen(page, PerPage)
    /\ HasPullRequest(Item)
    /\ idx' = idx + 1
    /\ UNCHANGED <<parseVars, pc, include_comments, n_raw, pattern, page, page_issues,
                   issues, requests, messages, exit_code, failure, fetch_returned,
                   html_built, writes, out_file, renderVars>>

\* Issue(...) raises KeyError on a record that lacks a field it indexes;
\* main: except Exception: print, return 1
NormalizeRaises ==
    /\ pc = "items"
    /\ idx <= PageLen(page, PerPage)
    /\ ~HasPullRequest(Item)
    /\ ~Item.wellformed
    /\ Exit(Msg("error"), 1, "normalize")
    /\ UNCHANGED <<parseVars, include_comments, n_raw, pattern, page, idx, page_issues,
                   issues, requests, fetch_returned, html_built, writes, out_file,
                   renderVars>>

\* the issue appended without its thread, whether or not it has one
AppendIssue_Unfetched ==
    /\ pc = "items"
    /\ idx <= PageLen(page, PerPage)
    /\ ~HasPullRequest(Item)
    /\ Item.wellformed
    /\ page_issues' = Append(page_issues, NewIssue(0))
    /\ idx' = idx + 1
    /\ UNCHANGED <<parseVars, pc, include_comments, n_raw, pattern, page, issues,
                   requests, messages, exit_code, failure, fetch_returned, html_built,
                   writes, out_file, renderVars>>

\* Issue(...) built, no comments to fetch: page_issues.append(issue)
AppendIssue ==
    /\ pc = "items"
    /\ idx <= PageLen(page, PerPage)
    /\ ~HasPullRequest(Item)
    /\ Item.wellformed
    /\ ~WantsComments(Item)
    /\ page_issues' = Append(page_issues, NewIssue(0))
    /\ idx' = idx + 1
    /\ UNCHANGED <<parseVars, pc, include_comments, n_raw, pattern, page, issues,
                   requests, messages, exit_code, failure, fetch_returned, html_built,
                   writes, out_file, renderVars>>

\* Issue(...) built; comments_data = make_github_request(comments_url, token) goes out
SendCommentsRequest ==
    /\ pc = "items"
    /\ idx <= PageLen(page, PerPage)
    /\ ~HasPullRequest(Item)
    /\ Item.wellformed
    /\ WantsComments(Item)
    /\ requests' = Append(requests, CommentsRequest(Global(page, idx)))
    /\ pc' = "comments_wait"
    /\ UNCHANGED <<parseVars, include_comments, n_raw, pattern, page, idx, page_issues,
                   issues, messages, exit_code, failure, fetch_returned, html_built,
                   writes, out_file, renderVars>>

\* the thread is answered with 200: issue.comments filled, page_issues.append(issue)
CommentsArrive ==
    /\ pc = "comments_wait"
    /\ requests' = Answered(requests, StatusOK)
    /\ page_issues' = Append(page_issues, NewIssue(Item.comments))
    /\ idx' = idx + 1
    /\ pc' = "items"
    /\ UNCHANGED <<parseVars, include_comments, n_raw, pattern, page, issues, messages,
                   exit_code, failure, fetch_returned, html_built, writes, out_file,
                   renderVars>>

\* the for loop is over: issues.extend(page_issues); a full page: page += 1
NextPage ==
    /\ pc = "items"
    /\ idx > PageLen(page, PerPage)
    /\ ~ShortPage(PageLen(page, PerPage))
    /\ issues' = issues \o page_issues
    /\ page' = page + 1
    /\ pc' = "page_request"
    /\ UNCHANGED <<parseVars, include_comments, n_raw, pattern, idx, page_issues,
                   requests, messages, exit_code, failure, fetch_returned, html_built,
                   writes, out_file, renderVars>>

\* the for loop is over: issues.extend(page_issues); a short page: break; return issues
LastPage ==
    /\ pc = "items"
    /\ idx > PageLen(page, PerPage)
    /\ ShortPage(PageLen(page, PerPage))
    /\ issues' = issues \o page_issues
    /\ fetch_returned' = TRUE
    /\ pc' = "fetched"
    /\ UNCHANGED <<parseVars, include_comments, n_raw, pattern, page, idx, page_issues,
                   requests, messages, exit_code, failure, html_built, writes, out_file,
                   renderVars>>

\* the exit code of main's `if not issues` branch
EmptyExitCode == 0

\* if not issues: print notice; return 0
ReturnNoIssues ==
    /\ pc = "fetched"
    /\ issues = <<>>
    /\ Exit(Msg("no_issues"), EmptyExitCode, "none")
    /\ UNCHANGED <<parseVars, include_comments, n_raw, pattern, page, idx, page_issues,
                   issues, requests, fetch_returned, html_built, writes, out_file,
                   renderVars>>

\* html_content = build_html(owner, repo, issues, args.comments)
BuildDocument ==
    /\ pc = "fetched"
    /\ issues # <<>>
    /\ html_built' = TRUE
    /\ pc' = "write"
    /\ UNCHANGED <<parseVars, include_comments, n_raw, pattern, page, idx, page_issues,
                   issues, requests, messages, exit_code, failure, fetch_returned,
                   writes, out_file, renderVars>>

\* build_html raises (a label colour that is not hexadecimal, a timestamp that is
\* not text, ...); main: except Exception: print, return 1
BuildRaises ==
    /\ pc = "fetched"
    /\ issues # <<>>
    /\ Exit(Msg("error"), 1, "render")
    /\ UNCHANGED <<parseVars, include_comments, n_raw, pattern, page, idx, page_issues,
                   issues, requests, fetch_returned, html_built, writes, out_file,
                   renderVars>>

\* the document written as soon as the issues are there, before it is built
WritePoint_Early == pc \in {"fetched", "write"}

\* where main calls output_path.write_text
WritePoint == pc = "write"

\* output_path.write_text(html_content, encoding='utf-8')
WriteDocument ==
    /\ WritePoint
    /\ writes' = writes + 1
    /\ out_file' = "complete"
    /\ pc' = "post_write"
    /\ UNCHANGED <<parseVars, include_comments, n_raw, pattern, page, idx, page_issues,
                   issues, requests, messages, exit_code, failure, fetch_returned,
                   html_built, renderVars>>

\* write_text raises OSError, before or after the file was opened for writing
WriteRaises ==
    /\ WritePoint
    /\ writes' = writes + 1
    /\ \E f \in {"absent", "partial"} : out_file' = f
    /\ Exit(Msg("error"), 1, "write")
    /\ UNCHANGED <<parseVars, include_comments, n_raw, pattern, page, idx, page_issues,
                   issues, requests, fetch_returned, html_built, renderVars>>

\* stat, report, webbrowser.open; return 0
ReturnSuccess ==
    /\ pc = "post_write"
    /\ Exit(Msg("generated"), 0, "none")
    /\ UNCHANGED <<parseVars, include_comments, n_raw, pattern, page, idx, page_issues,
                   issues, requests, fetch_returned, html_built, writes, out_file,
                   renderVars>>

\* stat / resolve / webbrowser.open raises; main: except Exception: print, return 1
PostWriteRaises ==
    /\ pc = "post_write"
    /\ Exit(Msg("error"), 1, "post")
    /\ UNCHANGED <<parseVars, include_comments, n_raw, pattern, page, idx, page_issues,
                   issues, requests, fetch_returned, html_built, writes, out_file,
                   renderVars>>

\* an interruption reported as success
InterruptExitCode_Zero == EmptyExitCode

\* the exit code of main's KeyboardInterrupt handler
InterruptExitCode == 1

\* positions inside main's second try block
TryPositions ==
    {"page_request", "page_wait", "items", "comments_wait", "fetched", "write",
     "post_write"}

\* KeyboardInterrupt inside the try block: print, return 1
Interrupt ==
    /\ pc \in TryPositions
    /\ Exit(Msg("interrupted"), InterruptExitCode, "interrupt")
    /\ UNCHANGED <<parseVars, include_comments, n_raw, pattern, page, idx, page_issues,
                   issues, requests, fetch_returned, html_built, writes, out_file,
                   renderVars>>

\* KeyboardInterrupt while write_text is writing: the file is left partial
InterruptInWrite ==
    /\ WritePoint
    /\ writes' = writes + 1
    /\ out_file' = "partial"
    /\ Exit(Msg("interrupted"), InterruptExitCode, "write")
    /\ UNCHANGED <<parseVars, include_comments, n_raw, pattern, page, idx, page_issues,
                   issues, requests, fetch_returned, html_built, renderVars>>

RenderIdle ==
    /\ raw_item = <<>>
    /\ norm = "ok"
    /\ issue_list = <<>>
    /\ document = NotYet
    /\ dom = Unloaded

\* main has not started: nothing requested, printed or written
Fresh ==
    /\ page = 0
    /\ idx = 0
    /\ page_issues = <<>>
    /\ issues = <<>>
    /\ requests = <<>>
    /\ messages = <<>>
    /\ exit_code = NoExit
    /\ failure = "none"
    /\ fetch_returned = FALSE
    /\ html_built = FALSE
    /\ writes = 0
    /\ out_file = "absent"

Init ==
    /\ repo_url \in RunIdentifiers
    /\ parsed = NotYet
    /\ pc = "parse"
    /\ include_comments \in BOOLEAN
    /\ n_raw \in Sizes
    /\ pattern \in Patterns
    /\ Fresh
    /\ RenderIdle

Next ==
    \/ ParseOk
    \/ ParseFails
    \/ SendPageRequest
    \/ PageArrives
    \/ EmptyPageArrives
    \/ RequestFails
    \/ RequestRaises
    \/ SkipPullRequest
    \/ NormalizeRaises
    \/ AppendIssue
    \/ SendCommentsRequest
    \/ CommentsArrive
    \/ NextPage
    \/ LastPage
    \/ ReturnNoIssues
    \/ BuildDocument
    \/ BuildRaises
    \/ WriteDocument
    \/ WriteRaises
    \/ ReturnSuccess
    \/ PostWriteRaises
    \/ Interrupt
    \/ InterruptInWrite

Spec == Init /\ [][Next]_vars

(***************************************************************************)
(* SpecParse: parse_repo_url on its own.                                   *)
(***************************************************************************)
FetchIdle ==
    /\ pc = "idle"
    /\ include_comments = FALSE
    /\ n_raw = 0
    /\ pattern = <<IssuePlain>>
    /\ Fresh

InitParse ==
    /\ repo_url \in Identifiers
    /\ parsed = NotYet
    /\ FetchIdle
    /\ RenderIdle

ParseIdentifier ==
    /\ pc = "idle"
    /\ parsed.pending
    /\ parsed' = parse_repo_url(repo_url)
    /\ UNCHANGED <<repo_url, fetchVars, renderVars>>

NextParse == ParseIdentifier

SpecParse == InitParse /\ [][NextParse]_vars

(***************************************************************************)
(* SpecRender: the structure of the document build_html produces.          *)
(***************************************************************************)
MaxIssues == 3     \* longest issue list given to build_html
MaxNumber == 3     \* issue numbers are 1..MaxNumber
MaxStamp  == 2     \* created_at takes the values 1..MaxStamp (ISO-8601 text orders as time)

\* an Issue without labels, milestone or comments
PlainFields ==
    [labels |-> <<>>, milestone |-> None, title |-> <<"t">>, author |-> <<"u">>,
     html_url |-> <<"h">>, body |-> <<"x">>, comments |-> 0]

\* Issue: labels holds the labels' names, comments the length of the thread
IssueValues ==
    { [number |-> n, created_at |-> c, state |-> s] @@ PlainFields :
        n \in 1..MaxNumber, c \in 1..MaxStamp, s \in {"open", "closed"} }

\* the Issue lists: numbers are unique within a repository
IssueLists ==
    { l \in UNION { [1..n -> IssueValues] : n \in 0..MaxIssues } :
        \A i, j \in DOMAIN l : i # j => l[i].number # l[j].number }

\* the position at which x goes into acc (sorted, newest first) so that the
\* sort is stable: after every element whose key is not smaller
InsertNewestFirst(acc, x) ==
    LET c == Cardinality({i \in DOMAIN acc : acc[i].created_at >= x.created_at})
    IN  SubSeq(acc, 1, c) \o <<x>> \o SubSeq(acc, c + 1, Len(acc))

\* sorted(l, key=lambda x: x.created_at, reverse=True): a stable sort
RECURSIVE SortedNewestFirstFrom(_, _)
SortedNewestFirstFrom(acc, l) ==
    IF l = <<>>
    THEN acc
    ELSE SortedNewestFirstFrom(InsertNewestFirst(acc, Head(l)), Tail(l))

SortedNewestFirst(l) == SortedNewestFirstFrom(<<>>, l)

\* the same sort without reverse=True
RECURSIVE Reversed(_)
Reversed(l) == IF l = <<>> THEN <<>> ELSE Reversed(Tail(l)) \o <<Head(l)>>

SidebarOrder_OldestFirst(l) == Reversed(SortedNewestFirst(Reversed(l)))

\* the order of the sidebar's All Issues list
SidebarOrder(l) == SortedNewestFirst(l)

\* the cards of the open issues only
CardOrder_OpenOnly(l) == SelectSeq(SortedNewestFirst(l), LAMBDA x : x.state = "open")

\* issues_sorted: the order of the cards
CardOrder(l) == SortedNewestFirst(l)

\* the elements of a list
Range(l) == { l[i] : i \in DOMAIN l }

\* the position at which x goes into acc (ascending) so that the sort is stable
InsertAscending(acc, x) ==
    LET c == Cardinality({i \in DOMAIN acc : ~StrLess(x, acc[i])})
    IN  SubSeq(acc, 1, c) \o <<x>> \o SubSeq(acc, c + 1, Len(acc))

\* sorted(l) for a list of str
RECURSIVE SortedFrom(_, _)
SortedFrom(acc, l) ==
    IF l = <<>> THEN acc ELSE SortedFrom(InsertAscending(acc, Head(l)), Tail(l))

Sorted(l) == SortedFrom(<<>>, l)

\* the keys build_sidebar_navigation gives the issues without label or milestone
Unlabeled   == <<"u", "n", "l", "a", "b", "e", "l", "e", "d">>
NoMilestone == <<"N", "o", " ", "M", "i", "l", "e", "s", "t", "o", "n", "e">>

\* if key not in groups: groups[key] = []; groups[key].append(issue)
AddToGroup(groups, key, issue) ==
    IF key \in DOMAIN groups
    THEN [groups EXCEPT ![key] = Append(@, issue)]
    ELSE groups @@ (key :> <<issue>>)

\* for label in issue.labels: the issue joins the group of each label
RECURSIVE GroupByLabels(_, _, _)
GroupByLabels(groups, labels, issue) ==
    IF labels = <<>>
    THEN groups
    ELSE GroupByLabels(AddToGroup(groups, Head(labels), issue), Tail(labels), issue)

\* label_groups after the grouping loop has run over l
RECURSIVE LabelGroupsFrom(_, _)
LabelGroupsFrom(groups, l) ==
    IF l = <<>>
    THEN groups
    ELSE LabelGroupsFrom(
             IF Head(l).labels # <<>>
             THEN GroupByLabels(groups, Head(l).labels, Head(l))
             ELSE AddToGroup(groups, Unlabeled, Head(l)),
             Tail(l))

label_groups(l) == LabelGroupsFrom(<<>>, l)

\* milestone = issue.milestone or 'No Milestone'
MilestoneKey_Sentinel(issue) == NoMilestone
MilestoneKey(issue) ==
    IF Truthy(issue.milestone) THEN issue.milestone[1] ELSE NoMilestone

\* milestone_groups after the grouping loop has run over l
RECURSIVE MilestoneGroupsFrom(_, _)
MilestoneGroupsFrom(groups, l) ==
    IF l = <<>>
    THEN groups
    ELSE MilestoneGroupsFrom(AddToGroup(groups, MilestoneKey(Head(l)), Head(l)), Tail(l))

milestone_groups(l) == MilestoneGroupsFrom(<<>>, l)

\* open_issues, closed_issues
OpenIssues_All(l) == l
OpenIssues(l)   == SelectSeq(l, LAMBDA i : i.state = "open")
ClosedIssues(l) == SelectSeq(l, LAMBDA i : i.state = "closed")

\* <div class="stat open">{len(open_issues)} OPEN</div> ... CLOSED ... TOTAL
Stats(l) ==
    [open |-> Len(OpenIssues(l)), closed |-> Len(ClosedIssues(l)), total |-> Len(l)]

\* all_labels: the set of the names of the labels of all issues
all_labels_FirstOnly(l) ==
    { l[i].labels[1] : i \in { j \in DOMAIN l : l[j].labels # <<>> } }
all_labels(l) == UNION { Range(l[i].labels) : i \in DOMAIN l }

\* the orders in which iterating over a set may yield its elements
IterationOrders(S) ==
    { f \in [1..Cardinality(S) -> S] : \A i, j \in DOMAIN f : i # j => f[i] # f[j] }

\* s.replace(c, r) for a character c
RECURSIVE Replace(_, _, _)
Replace(s, c, r) ==
    IF s = <<>> THEN <<>>
    ELSE (IF Head(s) = c THEN r ELSE <<Head(s)>>) \o Replace(Tail(s), c, r)

\* safe_label
SafeLabel(label_name) ==
    Lower(Replace(Replace(Replace(Replace(Escape(label_name),
        " ", <<"-">>), "/", <<"-">>), "(", <<>>), ")", <<>>))

\* onclick="filterIssues(\"{filter_type}\")" as the Python literal writes it:
\* the quotes around the argument are the quotes that delimit the attribute
OnclickWritten(filter_type) ==
    <<"filterIssues(", "\"">> \o filter_type \o <<"\"", ")">>

\* the filter types of the three chips that are always there
All    == <<"a", "l", "l">>
Open   == <<"o", "p", "e", "n">>
Closed == <<"c", "l", "o", "s", "e", "d">>
LabelPrefix == <<"l", "a", "b", "e", "l", "-">>

\* <div class="filter-chip" onclick="filterIssues(\"all\")">ALL ISSUES</div>, OPEN, CLOSED:
\* these carry no data-filter attribute
StaticChips ==
    << [onclick |-> OnclickWritten(All), text |-> "ALL ISSUES"],
       [onclick |-> OnclickWritten(Open), text |-> "OPEN"],
       [onclick |-> OnclickWritten(Closed), text |-> "CLOSED"] >>

\* <div class="filter-chip" data-filter="label-{safe_label}" ...>{html.escape(label_name).upper()}</div>
Chip(label_name) ==
    [filter |-> LabelPrefix \o SafeLabel(label_name),
     onclick |-> OnclickWritten(LabelPrefix \o SafeLabel(label_name)),
     name |-> label_name,
     text |-> Upper(Escape(label_name))]

\* for label_name in sorted(all_labels): one chip each
ChipOrder_Unsorted(order) == order
ChipOrder(order) == Sorted(order)

\* the label chips, given the order in which the set all_labels iterates
filter_chips(order) == [i \in DOMAIN order |-> Chip(ChipOrder(order)[i])]

\* anchor = f"issue-{issue.number}"
Anchor(n) == <<"issue-", n>>

\* the characters str.strip() removes
Whitespace == {" ", "\t", "\n", "\r"}

\* s.strip()
RECURSIVE LStrip(_)
LStrip(s) == IF s # <<>> /\ Head(s) \in Whitespace THEN LStrip(Tail(s)) ELSE s
RECURSIVE RStrip(_)
RStrip(s) ==
    IF s # <<>> /\ s[Len(s)] \in Whitespace THEN RStrip(SubSeq(s, 1, Len(s) - 1)) ELSE s
Strip(s) == RStrip(LStrip(s))

\* render_markdown_text: the placeholder paragraph for a body that is blank,
\* otherwise what the markdown library makes of the text
Placeholder_Never(md_text) == FALSE
Placeholder(md_text) == Strip(md_text) = <<>>
render_markdown_text(md_text) ==
    IF Placeholder(md_text)
    THEN [placeholder |-> TRUE, markdown |-> <<>>]
    ELSE [placeholder |-> FALSE, markdown |-> md_text]

\* the title cut to `limit` characters, escaped, with "..." when it was cut
SidebarTitleLimit == 50
Shortened(title, limit) ==
    Escape(SubSeq(title, 1, Min(limit, Len(title))))
        \o (IF Len(title) > limit THEN <<".", ".", ".">> ELSE <<>>)

\* <li><a href="#{anchor}" class="{state_class}">#{issue.number}: ...</a></li>
SidebarEntry(issue) ==
    [href |-> <<"#">> \o Anchor(issue.number), class |-> issue.state,
     number |-> issue.number, title |-> Shortened(issue.title, SidebarTitleLimit)]

\* generate_labels_html: one <span class="label"> per label, its name escaped
generate_labels_html(labels) == [i \in DOMAIN labels |-> Escape(labels[i])]

\* milestone_html: the annotation of a card, None when the issue has no milestone
MilestoneHtml(issue) ==
    IF Truthy(issue.milestone) THEN Some(Escape(issue.milestone[1])) ELSE None

\* <section class="issue-card {state_class}" id="{anchor}"> ... #{issue.number}: ...
Card(issue) ==
    [id |-> Anchor(issue.number),
     class |-> IF issue.state = "open" THEN "open" ELSE "closed",
     number |-> issue.number,
     href |-> Escape(issue.html_url),
     title |-> Escape(issue.title),
     author |-> Escape(issue.author),
     labels |-> generate_labels_html(issue.labels),
     milestone |-> MilestoneHtml(issue),
     body |-> render_markdown_text(issue.body)]

\* ', '.join(names)
RECURSIVE Join(_)
Join(names) ==
    IF names = <<>> THEN <<>>
    ELSE IF Len(names) = 1 THEN Head(names)
    ELSE Head(names) \o <<",", " ">> \o Join(Tail(names))

\* if issue.comments: the "## Comments" section of a corpus record
CommentsSection(issue) == issue.comments # 0

\* <document index="{index}"> <source>Issue #{issue.number}: {issue.title}</source>
\* <metadata> ... </metadata>: the labels and milestone lines are optional
CxmlRecord(index, issue) ==
    [index |-> index, number |-> issue.number, state |-> issue.state,
     title |-> issue.title, author |-> issue.author,
     labels |-> IF issue.labels # <<>> THEN Some(Join(issue.labels)) ELSE None,
     milestone |-> IF Truthy(issue.milestone) THEN Some(issue.milestone[1]) ELSE None,
     body |-> issue.body,
     comments |-> CommentsSection(issue)]

\* the All Issues section of build_sidebar_navigation
build_sidebar_navigation(l) ==
    [i \in DOMAIN l |-> SidebarEntry(SidebarOrder(l)[i])]

\* if len(milestone_groups) > 1 and any(m != 'No Milestone' for m in ...)
MilestonesShown(groups) ==
    /\ Cardinality(DOMAIN groups) > 1
    /\ \E m \in DOMAIN groups : m # NoMilestone

\* the entry of an issue under its milestone: the title is cut shorter
MilestoneTitleLimit == 40
MilestoneEntry(issue) ==
    [href |-> <<"#">> \o Anchor(issue.number), class |-> issue.state,
     number |-> issue.number, title |-> Shortened(issue.title, MilestoneTitleLimit)]

\* <details><summary>{html.escape(milestone)} ({len(milestone_issues)})</summary> ...
MilestoneDetails(milestone, milestone_issues) ==
    [summary |-> Escape(milestone), count |-> Len(milestone_issues),
     entries |-> [i \in DOMAIN milestone_issues |->
                     MilestoneEntry(SortedNewestFirst(milestone_issues)[i])]]

\* the Milestones section: for milestone, milestone_issues in
\* sorted(milestone_groups.items()), 'No Milestone' skipped
MilestonesSection(groups) ==
    IF MilestonesShown(groups)
    THEN LET keys  == Sorted(CHOOSE order \in IterationOrders(DOMAIN groups) : TRUE)
             shown == SelectSeq(keys, LAMBDA m : m # NoMilestone)
         IN  [i \in DOMAIN shown |-> MilestoneDetails(shown[i], groups[shown[i]])]
    ELSE <<>>

\* generate_cxml_text: for index, issue in enumerate(issues, 1)
generate_cxml_text_Sorted(l) ==
    [i \in DOMAIN l |-> CxmlRecord(i, SortedNewestFirst(l)[i])]
generate_cxml_text(l) == [i \in DOMAIN l |-> CxmlRecord(i, l[i])]

\* <repository>{owner}/{repo}</repository>
CxmlRepository(owner, repo) == owner \o <<Slash>> \o repo

\* html.escape applied to an optional line
EscapeOptional(opt) == IF opt = None THEN None ELSE Some(Escape(opt[1]))

\* <textarea id="llm-text" readonly>{html.escape(cxml_text)}</textarea>: every
\* character of the corpus text is escaped, so every text in it is
LlmText(repository, cxml) ==
    [repository |-> Escape(repository),
     records |-> [i \in DOMAIN cxml |->
         [title |-> Escape(cxml[i].title), author |-> Escape(cxml[i].author),
          labels |-> EscapeOptional(cxml[i].labels),
          milestone |-> EscapeOptional(cxml[i].milestone),
          body |-> Escape(cxml[i].body)]]]

\* repo_url = f"https://github.com/{owner}/{repo}"
RepoUrl(owner, repo) == <<"https://github.com/">> \o owner \o <<Slash>> \o repo

\* <a href="{repo_url}" target="_blank">
RepoHref(owner, repo) == RepoUrl(owner, repo)

\* {html.escape(owner)}/{html.escape(repo)}, in <title> and in the header link
RepoText(owner, repo) == Escape(owner) \o <<Slash>> \o Escape(repo)

\* build_html, all but the label chips: the header, the statistics, the
\* sidebar, the corpus text and the cards
build_html(owner, repo, l) ==
    [ok |-> TRUE, pending |-> FALSE,
     title |-> RepoText(owner, repo),
     repo_href |-> RepoHref(owner, repo),
     repo_text |-> RepoText(owner, repo),
     stats |-> Stats(l),
     static_chips |-> StaticChips,
     label_groups |-> label_groups(l),
     milestone_groups |-> milestone_groups(l),
     sidebar |-> build_sidebar_navigation(l),
     milestones |-> MilestonesSection(milestone_groups(l)),
     cxml |-> generate_cxml_text(l),
     llm_text |-> LlmText(CxmlRepository(owner, repo), generate_cxml_text(l)),
     cards |-> [i \in DOMAIN CardOrder(l) |-> Card(CardOrder(l)[i])]]

\* no raw record is being normalized: the issues are given as they are
NormalizeIdle ==
    /\ raw_item = <<>>
    /\ norm = "ok"

InitRender ==
    /\ repo_url = Identifier(<<>>, <<"o">>, <<"r">>, <<>>)
    /\ parsed = Pair(<<"o">>, <<"r">>)
    /\ FetchIdle
    /\ NormalizeIdle
    /\ issue_list \in IssueLists
    /\ document = NotYet
    /\ dom = Unloaded

\* build_html(owner, repo, issues): the set all_labels yields its elements in
\* an order the program does not control
BuildHtml ==
    /\ pc = "idle"
    /\ norm = "ok"
    /\ document.pending
    /\ \E order \in IterationOrders(all_labels(issue_list)) :
          document' = build_html(parsed.owner, parsed.repo, issue_list)
                          @@ [chips |-> filter_chips(order)]
    /\ UNCHANGED <<parseVars, fetchVars, raw_item, norm, issue_list, dom>>

NextRender == BuildHtml

SpecRender == InitRender /\ [][NextRender]_vars

(***************************************************************************)
(* SpecIndex: build_html applied to issues that carry labels and           *)
(* milestones.                                                             *)
(***************************************************************************)
\* label names and milestone titles
Bug      == <<"b", "u", "g">>
Ui       == <<"u", "i">>
QAndA    == <<"Q", "&", "A">>
V1       == <<"v", "1">>
V2       == <<"v", "2">>

\* what an issue may carry: among them a label that is named like the key of
\* the issues without label and a milestone that is titled like the key of the
\* issues without milestone
Profiles ==
    { [state |-> "open",   created_at |-> 2, labels |-> <<>>,          milestone |-> None],
      [state |-> "closed", created_at |-> 1, labels |-> <<Bug>>,       milestone |-> None],
      [state |-> "open",   created_at |-> 3, labels |-> <<Ui, Bug>>,   milestone |-> Some(V1)],
      [state |-> "closed", created_at |-> 2, labels |-> <<Ui>>,        milestone |-> Some(V2)],
      [state |-> "open",   created_at |-> 1, labels |-> <<Unlabeled>>, milestone |-> Some(NoMilestone)],
      [state |-> "closed", created_at |-> 3, labels |-> <<QAndA>>,     milestone |-> Some(V1)] }

\* the issue at position n of a list: its number is n
Profiled(n, profile) ==
    [number |-> n] @@ profile @@ PlainFields

IndexLists ==
    UNION { { [i \in 1..n |-> Profiled(i, choice[i])] : choice \in [1..n -> Profiles] } :
            n \in 0..MaxIssues }

InitIndex ==
    /\ repo_url = Identifier(<<>>, <<"o">>, <<"r">>, <<>>)
    /\ parsed = Pair(<<"o">>, <<"r">>)
    /\ FetchIdle
    /\ NormalizeIdle
    /\ issue_list \in IndexLists
    /\ document = NotYet
    /\ dom = Unloaded

NextIndex == BuildHtml

SpecIndex == InitIndex /\ [][NextIndex]_vars

(***************************************************************************)
(* SpecNormalize: one raw record of a listing page is turned into an Issue *)
(* and rendered.  A raw record is a function on the keys it carries; the   *)
(* value of `body` and of `milestone` is None for a JSON null.             *)
(***************************************************************************)
\* a record that carries every field fetch_issues reads
FullItem(body, milestone) ==
    [number |-> 1, title |-> <<"t">>, state |-> "open", created_at |-> 1,
     updated_at |-> 1, user |-> [login |-> <<"u">>, id |-> 1], html_url |-> <<"h">>,
     labels |-> <<>>, comments |-> 0, body |-> body, milestone |-> milestone]

\* the record without the key k; "login" is dropped from the user object
Without(item, k) ==
    IF k = "login"
    THEN [item EXCEPT !.user = [id |-> 1]]
    ELSE [x \in DOMAIN item \ {k} |-> item[x]]

\* the values of body in a response: absent is the key dropped
Bodies == { None, Some(<<>>), Some(<<" ", "\n">>), Some(<<"x">>) }
Milestones == { None, Some([title |-> V1, number |-> 1]) }

\* the keys one of which a record may lack
Droppable ==
    { "number", "title", "state", "created_at", "updated_at", "user", "login",
      "html_url", "labels", "body", "milestone" }

RawItems ==
    { FullItem(b, m) : b \in Bodies, m \in Milestones }
        \cup { Without(FullItem(b, m), k) : b \in Bodies, m \in Milestones, k \in Droppable }
        \cup { Without(Without(FullItem(None, None), "body"), "milestone") }

\* item.get(key, default)
Get(item, key, default) == IF key \in DOMAIN item THEN item[key] ELSE default

\* value or '' for a str or None
OrEmpty(value) == IF Truthy(value) THEN value[1] ELSE <<>>

\* the keys Issue(...) indexes: a KeyError (a TypeError) when one is not there
Indexed == {"number", "title", "state", "created_at", "updated_at", "user", "html_url"}

Raises(item) ==
    \/ \E k \in Indexed : k \notin DOMAIN item
    \/ "user" \in DOMAIN item /\ "login" \notin DOMAIN item.user

\* item['milestone']['title'] if item.get('milestone') else None
MilestoneOf(item) ==
    IF Get(item, "milestone", None) # None THEN Some(item.milestone[1].title) ELSE None

\* issue = Issue(number=item['number'], ...)
NormalizedIssue(item) ==
    [number |-> item.number,
     title |-> item.title,
     body |-> OrEmpty(Get(item, "body", Some(<<>>))),
     state |-> item.state,
     labels |-> Get(item, "labels", <<>>),
     created_at |-> item.created_at,
     author |-> item.user.login,
     html_url |-> item.html_url,
     milestone |-> MilestoneOf(item),
     comments |-> 0]

InitNormalize ==
    /\ repo_url = Identifier(<<>>, <<"o">>, <<"r">>, <<>>)
    /\ parsed = Pair(<<"o">>, <<"r">>)
    /\ FetchIdle
    /\ raw_item \in RawItems
    /\ norm = "pending"
    /\ issue_list = <<>>
    /\ document = NotYet
    /\ dom = Unloaded

\* the record is turned into an Issue, the only one of the list
Normalize ==
    /\ pc = "idle"
    /\ norm = "pending"
    /\ ~Raises(raw_item)
    /\ norm' = "ok"
    /\ issue_list' = <<NormalizedIssue(raw_item)>>
    /\ UNCHANGED <<parseVars, fetchVars, raw_item, document, dom>>

\* Issue(...) raises on a key that is not there
NormalizeFails ==
    /\ pc = "idle"
    /\ norm = "pending"
    /\ Raises(raw_item)
    /\ norm' = "KeyError"
    /\ UNCHANGED <<parseVars, fetchVars, raw_item, issue_list, document, dom>>

NextNormalize == Normalize \/ NormalizeFails \/ BuildHtml

SpecNormalize == InitNormalize /\ [][NextNormalize]_vars

(***************************************************************************)
(* SpecEscape: build_html applied to texts that hold markup characters.    *)
(***************************************************************************)
\* a title, a login, a name or a URL: plain, or with the characters of markup
Texts == { <<"a">>, <<"<", "b", ">">>, <<"\"", "&", "'">> }

\* an issue all of whose texts are given, followed by a plain one
EscapeList(title, author, label, milestone, html_url) ==
    << [number |-> 1, created_at |-> 2, state |-> "open", labels |-> <<label>>,
        milestone |-> Some(milestone), title |-> title, author |-> author,
        html_url |-> html_url, body |-> <<"x">>, comments |-> 0],
       [number |-> 2, created_at |-> 1, state |-> "closed"] @@ PlainFields >>

InitEscape ==
    /\ \E owner \in Texts, repo \in Texts :
          /\ repo_url = owner \o <<Slash>> \o repo
          /\ parsed = parse_repo_url(repo_url)
    /\ FetchIdle
    /\ NormalizeIdle
    /\ \E title \in Texts, author \in Texts, label \in Texts, milestone \in Texts,
          html_url \in Texts :
          issue_list = EscapeList(title, author, label, milestone, html_url)
    /\ document = NotYet
    /\ dom = Unloaded

NextEscape == BuildHtml

SpecEscape == InitEscape /\ [][NextEscape]_vars

(***************************************************************************)
(* SpecBrowse: the document opened in a browser; the chips, the search box *)
(* and the view buttons are used.                                          *)
(***************************************************************************)
\* s.includes(p)
Includes(s, p) == p = <<>> \/ Contains(s, p)

\* the browser reads a character reference as the character it stands for
RECURSIVE Unescape(_)
Unescape(s) ==
    IF s = <<>> THEN <<>>
    ELSE LET cs == { c \in {"&", "<", ">", "\"", "'"} : StartsWith(s, EscapeChar(c)) }
         IN  IF cs # {}
             THEN LET c == CHOOSE x \in cs : TRUE
                  IN  <<c>> \o Unescape(SubSeq(s, Len(EscapeChar(c)) + 1, Len(s)))
             ELSE <<Head(s)>> \o Unescape(Tail(s))

\* the value of an attribute written between double quotes ends at the first
\* double quote
RECURSIVE UpToQuote(_)
UpToQuote(s) ==
    IF s = <<>> \/ Head(s) = "\"" THEN <<>> ELSE <<Head(s)>> \o UpToQuote(Tail(s))

\* getAttribute: the value as the browser holds it
AttributeValue(written) == Unescape(UpToQuote(written))

\* onclickAttr.match(/filterIssues\(["']([^"']+)["']\)/): the group, or None
OnclickMatch(attr) ==
    LET Quotes == {"\"", "'"}
        hits == { m \in (DOMAIN attr) \X (DOMAIN attr) :
                    /\ attr[m[1]] = "filterIssues("
                    /\ m[1] + 1 \in DOMAIN attr /\ attr[m[1] + 1] \in Quotes
                    /\ m[2] > m[1] + 2
                    /\ attr[m[2]] \in Quotes
                    /\ \A k \in (m[1] + 2)..(m[2] - 1) : attr[k] \notin Quotes
                    /\ m[2] + 1 \in DOMAIN attr /\ attr[m[2] + 1] = ")" }
    IN  IF hits = {} THEN None
        ELSE LET m == CHOOSE h \in hits : \A g \in hits : h[1] <= g[1]
             IN  Some(SubSeq(attr, m[1] + 2, m[2] - 1))

\* the click handler DOMContentLoaded adds to every chip: the filter type is
\* data-filter, else the argument found in onclick, else 'all'
FilterType(data_filter, onclick) ==
    IF Truthy(data_filter) THEN data_filter[1]
    ELSE IF OnclickMatch(onclick) # None THEN OnclickMatch(onclick)[1]
    ELSE All

\* the number of chips of the page
ChipCount(doc) == Len(doc.static_chips) + Len(doc.chips)

\* the two attributes of the c-th chip of the page, in document order
PageChip(doc, c) ==
    IF c <= Len(doc.static_chips)
    THEN [data_filter |-> None,
          onclick |-> AttributeValue(doc.static_chips[c].onclick)]
    ELSE LET chip == doc.chips[c - Len(doc.static_chips)]
         IN  [data_filter |-> Some(AttributeValue(chip.filter)),
              onclick |-> AttributeValue(chip.onclick)]

\* filterIssues: shouldShow for one card
ShouldShow(filterType, card) ==
    IF filterType = All THEN TRUE
    ELSE IF filterType = Open THEN card.class = "open"
    ELSE IF filterType = Closed THEN card.class = "closed"
    ELSE IF StartsWith(filterType, LabelPrefix)
    THEN LET labelName ==
                 Replace(Lower(SubSeq(filterType, Len(LabelPrefix) + 1, Len(filterType))),
                         "-", <<" ">>)
         IN  \E i \in DOMAIN card.labels :
                LET labelText == Strip(Lower(Unescape(card.labels[i])))
                IN  \/ labelText = labelName
                    \/ Includes(labelText, labelName)
                    \/ Includes(labelName, labelText)
    ELSE FALSE

\* the decimal numeral of n
RECURSIVE Decimal(_)
Decimal(n) ==
    IF n < 10 THEN <<CodePoints[Ord("0") + n]>>
    ELSE Decimal(n \div 10) \o <<CodePoints[Ord("0") + (n % 10)]>>

\* the text of the body of a card: the placeholder, or the text of the issue
BodyText(card) ==
    IF card.body.placeholder
    THEN <<"N", "o", " ", "d", "e", "s", "c", "r", "i", "p", "t", "i", "o", "n", " ",
           "p", "r", "o", "v", "i", "d", "e", "d", ".">>
    ELSE card.body.markdown

\* searchIssues: shouldShow for one card, the term lowered and trimmed
SearchHit(term, card) ==
    \/ term = <<>>
    \/ Includes(Lower(<<"#">> \o Decimal(card.number) \o <<":", " ">> \o Unescape(card.title)), term)
    \/ Includes(Lower(BodyText(card)), term)
    \/ \E i \in DOMAIN card.labels : Includes(Lower(Unescape(card.labels[i])), term)
    \/ Includes(Decimal(card.number), term)
    \/ Includes(<<"#">> \o Decimal(card.number), term)

\* the links of the sidebar in document order: All Issues, then the milestones
RECURSIVE MilestoneLinks(_)
MilestoneLinks(groups) ==
    IF groups = <<>> THEN <<>> ELSE Head(groups).entries \o MilestoneLinks(Tail(groups))

SidebarLinks(doc) == doc.sidebar \o MilestoneLinks(doc.milestones)

\* document.querySelector(href), document.getElementById(issueId): the first
\* card with that id
CardOf(doc, link) ==
    CHOOSE i \in DOMAIN doc.cards :
        /\ doc.cards[i].id = Tail(link.href)
        /\ \A k \in DOMAIN doc.cards : doc.cards[k].id = Tail(link.href) => i <= k

\* style.display of the card a link points to, in a page with these card styles
DisplayOfCard(doc, card_styles, link) == card_styles[CardOf(doc, link)]

\* the page is parsed and DOMContentLoaded has run: no inline style, the first
\* chip and the HUMAN VIEW button are active, the search box is empty
Load ==
    /\ document.ok
    /\ ~dom.loaded
    /\ dom' = [loaded |-> TRUE,
               card |-> [i \in DOMAIN document.cards |-> ""],
               item |-> [k \in DOMAIN SidebarLinks(document) |-> ""],
               link |-> [k \in DOMAIN SidebarLinks(document) |-> ""],
               active |-> {1},
               search |-> <<>>,
               human |-> "", llm |-> "", button |-> {"human"}]
    /\ UNCHANGED <<parseVars, fetchVars, raw_item, norm, issue_list, document>>

\* a click on chip c: its inline onclick does not compile, the handler added
\* at DOMContentLoaded calls filterIssues(filterType); the <li> of every
\* sidebar link takes the display of its card
ClickChip(c) ==
    /\ dom.loaded
    /\ c \in 1..ChipCount(document)
    /\ LET chip   == PageChip(document, c)
           ft     == FilterType(chip.data_filter, chip.onclick)
           styles == [i \in DOMAIN document.cards |->
                         IF ShouldShow(ft, document.cards[i]) THEN "block" ELSE "none"]
       IN  dom' = [dom EXCEPT
                     !.active = {c},
                     !.search = <<>>,
                     !.card = styles,
                     !.item = [k \in DOMAIN SidebarLinks(document) |->
                                  DisplayOfCard(document, styles, SidebarLinks(document)[k])]]
    /\ UNCHANGED <<parseVars, fetchVars, raw_item, norm, issue_list, document>>

\* what is typed into the search box
Terms == { <<>>, <<"U", "I">>, <<"1">>, <<"z">> }

\* oninput="searchIssues(this.value)": the <a> of every sidebar link takes the
\* display of its card; a term that is not blank takes the chips' active mark
Search(value) ==
    /\ dom.loaded
    /\ LET searchTerm == Strip(Lower(value))
           styles == [i \in DOMAIN document.cards |->
                         IF SearchHit(searchTerm, document.cards[i]) THEN "block" ELSE "none"]
       IN  dom' = [dom EXCEPT
                     !.search = value,
                     !.card = styles,
                     !.link = [k \in DOMAIN SidebarLinks(document) |->
                                  DisplayOfCard(document, styles, SidebarLinks(document)[k])],
                     !.active = IF searchTerm # <<>> THEN {} ELSE @]
    /\ UNCHANGED <<parseVars, fetchVars, raw_item, norm, issue_list, document>>

\* onclick="showHumanView()" of the HUMAN VIEW button
ShowHumanView ==
    /\ dom.loaded
    /\ dom' = [dom EXCEPT !.human = "block", !.llm = "none", !.button = {"human"}]
    /\ UNCHANGED <<parseVars, fetchVars, raw_item, norm, issue_list, document>>

\* the human view left as it is
ShowLLMView_HumanStays ==
    /\ dom.loaded
    /\ dom' = [dom EXCEPT !.llm = "block", !.button = {"llm"}]
    /\ UNCHANGED <<parseVars, fetchVars, raw_item, norm, issue_list, document>>

\* onclick="showLLMView()" of the LLM VIEW button
ShowLLMView ==
    /\ dom.loaded
    /\ dom' = [dom EXCEPT !.human = "none", !.llm = "block", !.button = {"llm"}]
    /\ UNCHANGED <<parseVars, fetchVars, raw_item, norm, issue_list, document>>

\* the issues of the page: labels with a hyphen, a space, a slash and
\* parentheses, and one label that is part of another
BrowseProfiles ==
    { [state |-> "open",   created_at |-> 3, labels |-> <<Ui>>, milestone |-> None],
      [state |-> "closed", created_at |-> 2,
       labels |-> << <<"u", "i", "-", "k", "i", "t">> >>, milestone |-> Some(V1)],
      [state |-> "open",   created_at |-> 2,
       labels |-> << <<"a", " ", "b">> >>, milestone |-> None],
      [state |-> "closed", created_at |-> 1,
       labels |-> << <<"x", "/", "y">>, <<"p", "(", "q", ")">> >>, milestone |-> Some(V2)],
      [state |-> "closed", created_at |-> 1, labels |-> <<>>, milestone |-> None],
      [state |-> "open",   created_at |-> 1, labels |-> <<Bug>>, milestone |-> Some(V1)] }

BrowseLists ==
    {<<>>} \cup { <<Profiled(1, a)>> : a \in BrowseProfiles }
           \cup { <<Profiled(1, a), Profiled(2, b)>> : a, b \in BrowseProfiles }

InitBrowse ==
    /\ repo_url = Identifier(<<>>, <<"o">>, <<"r">>, <<>>)
    /\ parsed = Pair(<<"o">>, <<"r">>)
    /\ FetchIdle
    /\ NormalizeIdle
    /\ issue_list \in BrowseLists
    /\ document = NotYet
    /\ dom = Unloaded

NextBrowse ==
    \/ BuildHtml
    \/ Load
    \/ \E c \in 1..(Len(StaticChips) + 2 * Cardinality(BrowseProfiles)) : ClickChip(c)
    \/ \E value \in Terms : Search(value)
    \/ ShowHumanView
    \/ ShowLLMView

SpecBrowse == InitBrowse /\ [][NextBrowse]_vars

(***************************************************************************)
(* Properties of a run of main (Spec).                                     *)
(***************************************************************************)
IsPullRequestAt(g) == RawAt(g).pull_request
Occurrences(g)     == Cardinality({i \in DOMAIN issues : issues[i].number = g})
PullRequestCount   == Cardinality({g \in 1..n_raw : IsPullRequestAt(g)})

\* C1: when fetch_issues has returned, its list holds exactly one Issue for every
\* raw record of the listing that carries no pull_request field and none for a
\* record that carries it, so len(issues) = len(raw) - #pull requests; and no
\* comment thread is ever requested for a pull-request record.
C1_PullRequestsExcluded ==
    /\ fetch_returned =>
          /\ \A g \in 1..n_raw : Occurrences(g) = IF IsPullRequestAt(g) THEN 0 ELSE 1
          /\ Len(issues) = n_raw - PullRequestCount
    /\ (requests # <<>> /\ Last(requests).kind = "comments") =>
          ~IsPullRequestAt(Last(requests).arg)
    /\ \A i \in DOMAIN page_issues : ~IsPullRequestAt(page_issues[i].number)

C1_Witness ==
    /\ fetch_returned
    /\ include_comments
    /\ n_raw = PerPage + PerPage \div 2
    /\ pattern = <<PullRequest, IssueCommented>>
    /\ Len(issues) = n_raw \div 2

PageRequests == SelectSeq(requests, LAMBDA r : r.kind = "page")
LastPageNumber == (n_raw \div PerPage) + 1
RecordsOnPage(p) ==
    IF n_raw - (p - 1) * PerPage >= PerPage THEN PerPage
    ELSE IF n_raw - (p - 1) * PerPage > 0 THEN n_raw - (p - 1) * PerPage ELSE 0

\* the listing pages are requested in the order 1, 2, ... with per_page = 100, none
\* after the first page that holds fewer than 100 records; a completed fetch has
\* requested exactly pages 1..floor(N/100)+1 (two pages for N = 150)
C2_Pages ==
    /\ \A i \in DOMAIN PageRequests :
          /\ PageRequests[i].arg = i
          /\ PageRequests[i].per_page = PerPage
          /\ (PageRequests[i].status = StatusOK /\ RecordsOnPage(i) < PerPage)
                => i = Len(PageRequests)
    /\ Len(PageRequests) <= LastPageNumber
    /\ pc \in {"page_request", "page_wait", "items", "comments_wait"}
          => page = Len(PageRequests) + (IF pc = "page_request" THEN 1 ELSE 0)
    /\ fetch_returned => Len(PageRequests) = LastPageNumber
    /\ (fetch_returned /\ n_raw = 150) => Len(PageRequests) = 2

\* a bound on the steps a run has left: it falls with every step
PageWork == 2 * PerPage + 3
FetchRank(within) == 4 + (LastPageNumber - page) * PageWork + within
Rank ==
    CASE pc = "exit"          -> 0
      [] pc = "post_write"    -> 1
      [] pc = "write"         -> 2
      [] pc = "fetched"       -> 3
      [] pc = "comments_wait" -> FetchRank(2 * (PerPage - idx + 1) - 1)
      [] pc = "items"         -> FetchRank(2 * (PerPage - idx + 1))
      [] pc = "page_wait"     -> FetchRank(2 * PerPage + 1)
      [] pc = "page_request"  -> FetchRank(2 * PerPage + 2)
      [] OTHER                -> 4 + (LastPageNumber + 1) * PageWork

\* C2: for a listing of N records that does not change, fetch_issues requests the
\* pages 1, 2, ..., floor(N/100)+1 in this order with per_page = 100, stops after
\* the first page with fewer than 100 records (an empty one included) and
\* terminates: every step lowers a natural-valued bound on the steps left.
C2_Pagination ==
    /\ [](C2_Pages /\ Rank >= 0)
    /\ [][Rank' < Rank]_vars

C2_Witness ==
    /\ fetch_returned
    /\ n_raw = 150
    /\ Len(PageRequests) = 2
    /\ Len(issues) = 150

Failed(r) == r.status # Pending /\ r.status # StatusOK

\* C3: a request answered with 403 makes the run print the rate-limit message, one
\* answered with another status that is not 200 makes it print an HTTP error that
\* carries the status; either way the request is the last one of the run, it was
\* issued once, and the process has ended with exit code 1.
C3_FailedRequestIsFatal ==
    /\ \A i \in DOMAIN requests : i < Len(requests) => requests[i].status = StatusOK
    /\ (requests # <<>> /\ Failed(Last(requests))) =>
          /\ pc = "exit"
          /\ exit_code = 1
          /\ Len(messages) = 1
          /\ messages[1].status = Last(requests).status
          /\ messages[1].kind =
                IF Last(requests).status = 403 THEN "rate_limit"
                ELSE IF Last(requests).status >= 400 THEN "http_error" ELSE "http_status"
          /\ \A i \in DOMAIN requests :
                (requests[i].kind = Last(requests).kind
                    /\ requests[i].arg = Last(requests).arg) => i = Len(requests)

C3_Witness ==
    /\ Len(requests) > PerPage
    /\ Last(requests).kind = "comments"
    /\ Last(requests).status = 403
    /\ exit_code = 1

\* C4: the output is written at most once, and only after fetch_issues has returned
\* (every listing page and every requested comment thread answered with 200) and
\* build_html has produced the document; when parsing or a request fails,
\* normalising or rendering raises, or the user interrupts before the write, the
\* output path is left untouched.
C4_WriteOnlyAfterAll ==
    /\ writes <= 1
    /\ (writes > 0 \/ out_file # "absent") =>
          /\ fetch_returned
          /\ html_built
          /\ parsed.ok
          /\ \A i \in DOMAIN requests : requests[i].status = StatusOK
          /\ Len(PageRequests) = LastPageNumber
    /\ (failure \in {"parse", "request", "normalize", "render"}
            \/ (failure = "interrupt" /\ writes = 0)) =>
          (writes = 0 /\ out_file = "absent")

C4_Witness ==
    /\ out_file = "complete"
    /\ writes = 1
    /\ include_comments
    /\ Len(requests) > PerPage

C6_InputErrorBeforeNetwork ==
    /\ (repo_url = NotAValidPath /\ pc # "parse" /\ pc # "idle") => parsed = ValueError
    /\ parsed = ValueError =>
          /\ pc \in {"exit", "idle"}
          /\ pc = "exit" =>
                /\ exit_code = 1
                /\ messages = <<Msg("input_error")>>
          /\ requests = <<>>
          /\ writes = 0
          /\ out_file = "absent"

C6_Witness ==
    /\ repo_url = NotAValidPath
    /\ pc = "exit"
    /\ exit_code = 1
    /\ messages = <<Msg("input_error")>>

(***************************************************************************)
(* Properties of parse_repo_url (SpecParse).                               *)
(***************************************************************************)
\* C7: for every non-empty owner o and repository name r without a slash,
\* parse_repo_url returns (o, r) for o/r and for <scheme>://github.com/o/r, with
\* or without a trailing .git, a trailing slash, or both.
C7_Original ==
    \A f \in Forms, o \in Owners, r \in Repos, x \in Suffixes :
        (repo_url = Identifier(f, o, r, x) /\ ~parsed.pending) => parsed = Pair(o, r)

CommentRequests == SelectSeq(requests, LAMBDA r : r.kind = "comments")
HasThread(g)    == ~IsPullRequestAt(g) /\ RawAt(g).comments > 0

\* C15: when fetch_issues has returned with comments asked for, the comment
\* requests are, one each and no other, those of the records that are no pull
\* requests and count at least one comment; without comments asked for there is
\* no comment request, every Issue has an empty thread and no record of the
\* corpus text has a comments section.
C15_OneRequestPerThread ==
    fetch_returned =>
        IF include_comments
        THEN /\ \A i \in DOMAIN CommentRequests :
                   /\ CommentRequests[i].arg \in 1..n_raw
                   /\ HasThread(CommentRequests[i].arg)
                   /\ i > 1 => CommentRequests[i - 1].arg < CommentRequests[i].arg
             /\ Len(CommentRequests) = Cardinality({g \in 1..n_raw : HasThread(g)})
        ELSE /\ CommentRequests = <<>>
             /\ \A i \in DOMAIN issues :
                   /\ issues[i].comments = 0
                   /\ ~CommentsSection(issues[i])

C15_Witness ==
    /\ fetch_returned
    /\ include_comments
    /\ PullRequestCount > PerPage
    /\ Len(CommentRequests) > PerPage
    /\ Len(CommentRequests) = Len(issues)

\* the page a raw record is on
PageOf(g) == ((g - 1) \div PerPage) + 1

\* a request goes out only when the one before it is answered, and in the
\* order of the listing
SentInOrder ==
    (Len(requests') = Len(requests) + 1) =>
        LET new == Last(requests')
        IN  /\ SubSeq(requests', 1, Len(requests)) = requests
            /\ new.status = Pending
            /\ requests # <<>> => Last(requests).status = StatusOK
            /\ new.kind = "page" =>
                  new.arg = IF requests = <<>> THEN 1
                            ELSE IF Last(requests).kind = "page" THEN Last(requests).arg + 1
                            ELSE PageOf(Last(requests).arg) + 1
            /\ new.kind = "comments" =>
                  /\ requests # <<>>
                  /\ IF Last(requests).kind = "page"
                     THEN PageOf(new.arg) = Last(requests).arg
                     ELSE /\ PageOf(new.arg) = PageOf(Last(requests).arg)
                          /\ Last(requests).arg < new.arg

\* the log changes only by a new request or by the answer to its last one
OneInFlight ==
    (requests' # requests /\ Len(requests') # Len(requests) + 1) =>
        /\ requests # <<>>
        /\ Last(requests).status = Pending
        /\ \E s \in {StatusOK} \cup FailStatuses : requests' = Answered(requests, s)

\* an issue joins page_issues with its thread fetched, when it has one to fetch
AppendedWithThread ==
    (page_issues' # page_issues /\ page_issues' # <<>>) =>
        LET issue == Last(page_issues')
        IN  /\ page_issues' = Append(page_issues, issue)
            /\ IF include_comments /\ HasThread(issue.number)
               THEN /\ Last(requests') = [CommentsRequest(issue.number) EXCEPT !.status = StatusOK]
                    /\ issue.comments = RawAt(issue.number).comments
               ELSE /\ issue.comments = 0
                    /\ requests' = requests

\* C18: the requests go out one after the other: the request of a page, then,
\* in the order of the records of that page, the comment requests of its
\* issues, then the request of the next page; each only once the one before
\* is answered; and an issue is appended only when its thread is there.
C18_Sequential == [][SentInOrder /\ OneInFlight /\ AppendedWithThread]_vars

C18_Witness ==
    /\ include_comments
    /\ page = 2
    /\ pc = "items"
    /\ Len(page_issues) = 2
    /\ Last(requests).kind = "comments"
    /\ Last(requests).status = StatusOK
    /\ requests[2].kind = "comments"
    /\ Len(PageRequests) = 2

(***************************************************************************)
(* Properties of the rendered document (SpecRender).                       *)
(***************************************************************************)
SidebarTargets == [i \in DOMAIN document.sidebar |-> Tail(document.sidebar[i].href)]
SidebarNumbers == [i \in DOMAIN document.sidebar |-> document.sidebar[i].number]
CardIds        == [i \in DOMAIN document.cards |-> document.cards[i].id]
CardNumbers    == [i \in DOMAIN document.cards |-> document.cards[i].number]

\* C8: the issue numbers of the sidebar's All Issues list are, position by
\* position, the issue numbers of the cards of the main document, also when
\* several issues share one created_at.
C8_SidebarMatchesCards ==
    document.ok =>
        /\ SidebarTargets = CardIds
        /\ SidebarNumbers = CardNumbers

C8_Witness ==
    /\ document.ok
    /\ Len(issue_list) = 3
    /\ issue_list[1].created_at = issue_list[2].created_at
    /\ issue_list[3].created_at > issue_list[1].created_at
    /\ CardNumbers # [i \in DOMAIN issue_list |-> issue_list[i].number]
    /\ SidebarNumbers = CardNumbers

IssueNumbered(n) == CHOOSE x \in {issue_list[i] : i \in DOMAIN issue_list} : x.number = n

\* issue a is rendered before issue b: newer first, the higher number first on a tie
Before(a, b) ==
    \/ a.created_at > b.created_at
    \/ (a.created_at = b.created_at /\ a.number > b.number)

Reorderings(l) ==
    { [i \in DOMAIN l |-> l[f[i]]] :
        f \in {g \in [DOMAIN l -> DOMAIN l] : \A i, j \in DOMAIN l : i # j => g[i] # g[j]} }

\* C9: the order of the sidebar list and of the cards is created_at descending
\* with ties broken by number descending, so it is the same for every
\* permutation of the issue list.
C9_Original ==
    document.ok =>
        /\ \A i, j \in DOMAIN document.cards :
              i < j => Before(IssueNumbered(CardNumbers[i]), IssueNumbered(CardNumbers[j]))
        /\ \A i, j \in DOMAIN document.sidebar :
              i < j => Before(IssueNumbered(SidebarNumbers[i]),
                              IssueNumbered(SidebarNumbers[j]))
        /\ \A l \in Reorderings(issue_list) :
              /\ build_html(parsed.owner, parsed.repo, l).cards = document.cards
              /\ build_html(parsed.owner, parsed.repo, l).sidebar = document.sidebar

ListedNumbers == {issue_list[i].number : i \in DOMAIN issue_list}
CardsWithAnchor(n) ==
    Cardinality({i \in DOMAIN document.cards : document.cards[i].id = <<"issue-", n>>})
RecordsOf(n) ==
    Cardinality({i \in DOMAIN document.cxml : document.cxml[i].number = n})

\* C10: for an issue list whose numbers are distinct, every issue number of the
\* list has exactly one card with the anchor issue-<number> and exactly one
\* <document> record in the corpus text, and no card or record belongs to a
\* number that is not in the list.
C10_OneAnchorOneRecord ==
    document.ok =>
        /\ \A n \in 1..MaxNumber :
              /\ CardsWithAnchor(n) = IF n \in ListedNumbers THEN 1 ELSE 0
              /\ RecordsOf(n) = IF n \in ListedNumbers THEN 1 ELSE 0
        /\ \A i \in DOMAIN document.cards :
              \E n \in ListedNumbers : document.cards[i].id = <<"issue-", n>>
        /\ \A i \in DOMAIN document.cxml : document.cxml[i].number \in ListedNumbers
        /\ Len(document.cards) = Len(issue_list)
        /\ Len(document.cxml) = Len(issue_list)

C10_Witness ==
    /\ document.ok
    /\ Len(issue_list) = 3
    /\ \E i \in DOMAIN issue_list : issue_list[i].state = "closed"
    /\ \E i \in DOMAIN issue_list : issue_list[i].state = "open"
    /\ \A n \in ListedNumbers : CardsWithAnchor(n) = 1 /\ RecordsOf(n) = 1


\* C13: the header shows the number of open issues, the number of closed
\* issues and the length of the list, and the first two add up to the third.
C13_HeaderCounts ==
    document.ok =>
        /\ document.stats.open =
               Cardinality({i \in DOMAIN issue_list : issue_list[i].state = "open"})
        /\ document.stats.closed =
               Cardinality({i \in DOMAIN issue_list : issue_list[i].state = "closed"})
        /\ document.stats.total = Len(issue_list)
        /\ document.stats.open + document.stats.closed = document.stats.total

C13_Witness ==
    /\ document.ok
    /\ document.stats.total = 3
    /\ document.stats.open = 2
    /\ document.stats.closed = 1

\* C16: the i-th record of the corpus text carries the index i and is the
\* record of the i-th issue of the list as fetched; the corpus is not re-sorted.
C16_CorpusInFetchedOrder ==
    document.ok =>
        /\ Len(document.cxml) = Len(issue_list)
        /\ \A i \in DOMAIN issue_list :
              /\ document.cxml[i].index = i
              /\ document.cxml[i].number = issue_list[i].number

C16_Witness ==
    /\ document.ok
    /\ Len(issue_list) = 3
    /\ CardNumbers # [i \in DOMAIN issue_list |-> issue_list[i].number]
    /\ document.cxml[1].number = issue_list[1].number
    /\ document.cxml[3].index = 3

(***************************************************************************)
(* Properties of the groups and the label chips (SpecIndex).               *)
(***************************************************************************)
\* C11: the document is a function of the owner, the repository name and the
\* issue list: whatever order the set of label names iterates in, build_html
\* yields the document it yielded, chips in the same order included.
C11_Deterministic ==
    document.ok =>
        \A order \in IterationOrders(UNION { Range(issue_list[i].labels) : i \in DOMAIN issue_list }) :
            document = build_html(parsed.owner, parsed.repo, issue_list)
                           @@ [chips |-> filter_chips(order)]

C11_Witness ==
    /\ document.ok
    /\ Len(issue_list) = 3
    /\ issue_list[1].labels = <<Ui, Bug>>
    /\ [i \in DOMAIN document.chips |-> document.chips[i].name] = <<QAndA, Bug, Ui>>

\* how often the issue numbered n occurs in the group under key
BucketCount(groups, key, n) ==
    Cardinality({ i \in DOMAIN groups[key] : groups[key][i].number = n })

LabelSet(issue) == { issue.labels[i] : i \in DOMAIN issue.labels }

\* an issue with labels is once in the group of each of its labels and in no other
LabelledOnceEach ==
    \A i \in DOMAIN issue_list :
        issue_list[i].labels # <<>> =>
            /\ LabelSet(issue_list[i]) \subseteq DOMAIN document.label_groups
            /\ \A k \in DOMAIN document.label_groups :
                  BucketCount(document.label_groups, k, issue_list[i].number)
                      = IF k \in LabelSet(issue_list[i]) THEN 1 ELSE 0

\* an issue without labels is in the group 'unlabeled' only
UnlabelledOnce ==
    \A i \in DOMAIN issue_list :
        issue_list[i].labels = <<>> =>
            /\ Unlabeled \in DOMAIN document.label_groups
            /\ \A k \in DOMAIN document.label_groups :
                  BucketCount(document.label_groups, k, issue_list[i].number)
                      = IF k = Unlabeled THEN 1 ELSE 0

\* every issue is in one milestone group, once: that of its milestone, or 'No Milestone'
OneMilestoneGroup ==
    \A i \in DOMAIN issue_list :
        LET key == IF issue_list[i].milestone = None
                   THEN NoMilestone ELSE issue_list[i].milestone[1]
        IN  /\ key \in DOMAIN document.milestone_groups
            /\ \A k \in DOMAIN document.milestone_groups :
                  BucketCount(document.milestone_groups, k, issue_list[i].number)
                      = IF k = key THEN 1 ELSE 0

\* the members of the group under key, if there is one
Members(groups, key) ==
    IF key \in DOMAIN groups THEN { groups[key][i] : i \in DOMAIN groups[key] } ELSE {}

\* C19 as stated: ..., and the groups 'unlabeled' and 'No Milestone' hold only
\* issues that have no label, respectively no milestone.
C19_Original ==
    document.ok =>
        /\ LabelledOnceEach
        /\ UnlabelledOnce
        /\ OneMilestoneGroup
        /\ \A x \in Members(document.label_groups, Unlabeled) : x.labels = <<>>
        /\ \A x \in Members(document.milestone_groups, NoMilestone) : x.milestone = None

\* C19, amended: ..., and the groups 'unlabeled' and 'No Milestone' hold only
\* issues that have no label or carry a label named 'unlabeled', respectively
\* have no milestone or a milestone titled 'No Milestone'.
C19_Buckets ==
    document.ok =>
        /\ LabelledOnceEach
        /\ UnlabelledOnce
        /\ OneMilestoneGroup
        /\ \A x \in Members(document.label_groups, Unlabeled) :
              x.labels = <<>> \/ Unlabeled \in LabelSet(x)
        /\ \A x \in Members(document.milestone_groups, NoMilestone) :
              x.milestone = None \/ x.milestone = Some(NoMilestone)

C19_Witness ==
    /\ document.ok
    /\ Len(issue_list) = 3
    /\ issue_list[1].labels = <<>>
    /\ Len(issue_list[2].labels) = 2
    /\ issue_list[3].labels = <<Unlabeled>>
    /\ Len(document.label_groups[Unlabeled]) = 2
    /\ Len(document.milestone_groups[NoMilestone]) = 2

ChipNames  == { document.chips[i].name : i \in DOMAIN document.chips }
LabelNames == UNION { LabelSet(issue_list[i]) : i \in DOMAIN issue_list }

\* C20 as stated: the names of the chips are the names of the labels of all
\* issues, and are the keys of the label groups without 'unlabeled'; one chip
\* per name.
C20_Original ==
    document.ok =>
        /\ ChipNames = LabelNames
        /\ ChipNames = DOMAIN document.label_groups \ {Unlabeled}
        /\ Len(document.chips) = Cardinality(ChipNames)

\* C20, amended: the names of the chips are the names of the labels of all
\* issues; these are the keys of the label groups, but for the key 'unlabeled',
\* which is a chip exactly when an issue carries a label of that name; one chip
\* per name.
C20_ChipsAreLabels ==
    document.ok =>
        /\ ChipNames = LabelNames
        /\ ChipNames \ {Unlabeled} = DOMAIN document.label_groups \ {Unlabeled}
        /\ Unlabeled \in ChipNames <=>
               \E i \in DOMAIN issue_list : Unlabeled \in LabelSet(issue_list[i])
        /\ Len(document.chips) = Cardinality(ChipNames)

C20_Witness ==
    /\ document.ok
    /\ Len(issue_list) = 3
    /\ \E i \in DOMAIN issue_list : issue_list[i].labels = <<>>
    /\ Cardinality(ChipNames) = 3
    /\ Unlabeled \in ChipNames
    /\ Ui \in ChipNames

(***************************************************************************)
(* Properties of the normalization of a raw record (SpecNormalize).        *)
(***************************************************************************)
\* the body of the record is null, missing, empty or made of whitespace
BlankBody(item) ==
    \/ "body" \notin DOMAIN item
    \/ item.body \in {None, Some(<<>>), Some(<<" ", "\n">>)}

\* the milestone of the record is null or missing
MilestoneAbsent(item) ==
    \/ "milestone" \notin DOMAIN item
    \/ item.milestone = None

\* the record carries the fields named
Carries(item, keys) ==
    /\ keys \subseteq DOMAIN item
    /\ "user" \in keys => "login" \in DOMAIN item.user

\* C14: a record, complete but for a body that is null, missing, empty or
\* whitespace and a milestone that is null or missing, becomes an Issue with
\* body '' (or the whitespace) and no milestone; its card shows the placeholder
\* and no milestone, and its corpus record has no <milestone> line.
C14_BlankTolerated ==
    ( /\ norm # "pending"
      /\ BlankBody(raw_item)
      /\ MilestoneAbsent(raw_item)
      /\ Carries(raw_item, {"number", "title", "state", "created_at", "updated_at",
                            "user", "html_url"}) ) =>
        /\ norm = "ok"
        /\ issue_list[1].body =
               IF "body" \in DOMAIN raw_item /\ raw_item.body = Some(<<" ", "\n">>)
               THEN <<" ", "\n">> ELSE <<>>
        /\ issue_list[1].milestone = None
        /\ document.ok =>
               /\ document.cards[1].body.placeholder
               /\ document.cards[1].milestone = None
               /\ document.cxml[1].milestone = None

C14_Witness ==
    /\ document.ok
    /\ "body" \notin DOMAIN raw_item
    /\ "milestone" \notin DOMAIN raw_item
    /\ document.cards[1].body.placeholder
    /\ document.cxml[1].milestone = None

Entities ==
    { <<"&", "a", "m", "p", ";">>, <<"&", "l", "t", ";">>, <<"&", "g", "t", ";">>,
      <<"&", "q", "u", "o", "t", ";">>, <<"&", "#", "x", "2", "7", ";">> }

\* w holds no '<', '>' or '"', and every '&' in it begins a character reference
NoRawMarkup(w) ==
    \A i \in DOMAIN w :
        /\ w[i] \notin {"<", ">", "\""}
        /\ w[i] = "&" =>
               \E e \in Entities :
                   /\ i + Len(e) - 1 <= Len(w)
                   /\ SubSeq(w, i, i + Len(e) - 1) = e

\* the texts of the document that come from the owner, the repository name and
\* the issues, outside the rendered bodies; the text of a chip is in capitals
EmbeddedTexts ==
    {document.title, document.repo_href, document.repo_text}
        \cup { document.sidebar[i].title : i \in DOMAIN document.sidebar }
        \cup { document.milestones[i].summary : i \in DOMAIN document.milestones }
        \cup UNION { { document.milestones[i].entries[k].title :
                          k \in DOMAIN document.milestones[i].entries } :
                     i \in DOMAIN document.milestones }
        \cup UNION { { document.cards[i].href, document.cards[i].title,
                       document.cards[i].author } \cup Range(document.cards[i].milestone)
                         \cup Range(document.cards[i].labels) :
                     i \in DOMAIN document.cards }
        \cup UNION { { document.chips[i].filter, Lower(document.chips[i].text) } :
                     i \in DOMAIN document.chips }

\* C12 as stated: every text that comes from the owner, the repository name or
\* an issue - the repository URL among them - is written escaped wherever the
\* document embeds it outside a rendered body: no '<', '>', '"' or bare '&'.
C12_Original ==
    document.ok => \A w \in EmbeddedTexts : NoRawMarkup(w)

(***************************************************************************)
(* Properties of the parser, continued (SpecParse).                        *)
(***************************************************************************)
\* C25 as stated: parse_repo_url raises ValueError or returns an owner and a
\* repository name that are both non-empty and hold no slash.
C25_Original ==
    (~parsed.pending /\ parsed.ok) =>
        /\ parsed.owner # <<>>
        /\ parsed.repo # <<>>
        /\ \A i \in DOMAIN parsed.owner : parsed.owner[i] # Slash
        /\ \A i \in DOMAIN parsed.repo : parsed.repo[i] # Slash

(***************************************************************************)
(* Properties of the Milestones section (SpecIndex).                       *)
(***************************************************************************)
MilestoneNames ==
    { issue_list[i].milestone[1] :
        i \in { j \in DOMAIN issue_list : issue_list[j].milestone # None } }

\* the numbers of the issues of milestone m
InMilestone(m) ==
    { issue_list[i].number :
        i \in { j \in DOMAIN issue_list : issue_list[j].milestone = Some(m) } }

\* C24 as stated: when an issue has a milestone, the sidebar has a Milestones
\* section with one group per milestone name, each listing the issues of that
\* milestone, newest first; also when all issues share a single milestone.
C24_Original ==
    (document.ok /\ MilestoneNames # {}) =>
        /\ Len(document.milestones) = Cardinality(MilestoneNames)
        /\ \A m \in MilestoneNames :
              \E g \in DOMAIN document.milestones :
                 LET entries == document.milestones[g].entries
                 IN  /\ document.milestones[g].summary = Escape(m)
                     /\ { entries[k].number : k \in DOMAIN entries } = InMilestone(m)
                     /\ Len(entries) = Cardinality(InMilestone(m))
                     /\ \A k \in DOMAIN entries :
                           k > 1 => IssueNumbered(entries[k - 1].number).created_at
                                        >= IssueNumbered(entries[k].number).created_at

(***************************************************************************)
(* Properties of the document in the browser (SpecBrowse).                 *)
(***************************************************************************)
CardVisible(styles, i) == styles.card[i] # "none"

\* the issues chip c is about: all, the open, the closed, those carrying the label
ChipSelects(c, issue) ==
    IF c = 1 THEN TRUE
    ELSE IF c = 2 THEN issue.state = "open"
    ELSE IF c = 3 THEN issue.state = "closed"
    ELSE document.chips[c - 3].name \in LabelSet(issue)

\* C21 as stated: a click on a chip leaves visible exactly the cards of the
\* issues the chip is about: every card for ALL ISSUES, the open issues for
\* OPEN, the closed ones for CLOSED, the issues carrying L for the chip of L.
C21_Original ==
    [][ \A c \in 1..(3 + 2 * Cardinality(BrowseProfiles)) :
            ClickChip(c) =>
                \A i \in DOMAIN document.cards :
                    CardVisible(dom', i)
                        <=> ChipSelects(c, IssueNumbered(document.cards[i].number)) ]_vars

\* a sidebar entry shows when neither its <li> nor its <a> is hidden
EntryVisible(k) == dom.item[k] # "none" /\ dom.link[k] # "none"

\* C22 as stated: whatever chips were clicked and terms searched, a sidebar
\* entry is visible exactly when the card of its issue is.
C22_Original ==
    dom.loaded =>
        \A k \in DOMAIN SidebarLinks(document) :
            EntryVisible(k) <=>
                \E i \in DOMAIN document.cards :
                    /\ document.cards[i].number = SidebarLinks(document)[k].number
                    /\ CardVisible(dom, i)

\* #llm-view is hidden by the style sheet unless its own style says otherwise
HumanShown(styles) == styles.human # "none"
LlmShown(styles)   == styles.llm = "block"

\* C23: from the moment the page is loaded one view is shown and the other is
\* not, the active button is that of the view shown; the page opens on the
\* human view, a click on a view button shows that view, and nothing else
\* changes the view.
C23_OneView ==
    /\ [](dom.loaded =>
            /\ HumanShown(dom) # LlmShown(dom)
            /\ dom.button = IF HumanShown(dom) THEN {"human"} ELSE {"llm"})
    /\ [][ /\ Load => HumanShown(dom')
           /\ ShowHumanView => HumanShown(dom')
           /\ ShowLLMView => LlmShown(dom')
           /\ (dom.loaded /\ ~ShowHumanView /\ ~ShowLLMView) =>
                  (dom'.human = dom.human /\ dom'.llm = dom.llm) ]_vars

C23_Witness ==
    /\ dom.loaded
    /\ LlmShown(dom)
    /\ ~HumanShown(dom)
    /\ dom.button = {"llm"}
    /\ dom.active = {2}

====
